---- MODULE Spec2Model ----
(***************************************************************************)
(* Model of src/components/TicTacToe.tsx: the board evaluator              *)
(* (calculateWinner), the move selector (minimax) and the game session     *)
(* that drives them (handleClick, aiMove, startNewGame, resetGame,         *)
(* startGame), together with the timers scheduled by setTimeout.           *)
(***************************************************************************)
EXTENDS Integers, Sequences, FiniteSets, TLC

VARIABLES
    board,        \* useState<Board>: cells 0..8, each "X", "O" or null
    xIsNext,      \* useState<boolean>
    scores,       \* useState<{X: number; O: number}>
    winner,       \* useState<Player | null>
    gameStarted,  \* useState<boolean>
    gameMode,     \* useState<"AI" | "Player" | null>
    timers,       \* pending setTimeout(() => aiMove(newBoard), 500), oldest first
    call          \* the last operation applied, with its arguments and result

vars == <<board, xIsNext, scores, winner, gameStarted, gameMode, timers, call>>

\* ---------------------------------------------------------------- bounds
MaxWins == 2          \* games won, both sides together, between two resetGame
MaxPending == 2       \* setTimeout callbacks pending at one time
MaxOpsPerDelay == 1   \* user operations within the 500 ms delay of one timer

\* ------------------------------------------------------------ data model
null == "null"
Player == {"X", "O"}
Cells == 0 .. 8
Infinity == 1000   \* above every value minimax compares (these lie in -10 .. 10)

AllBoards == [Cells -> Player \cup {null}]
EmptyBoard == [i \in Cells |-> null]

\* board.every(cell => cell !== null)
every(b) == \A i \in Cells : b[i] # null

Count(b, m) == Cardinality({i \in Cells : b[i] = m})

\* ------------------------------------------------------- calculateWinner
linesSwapped ==
    << <<0, 1, 2>>, <<3, 4, 5>>, <<6, 7, 8>>,
       <<0, 3, 6>>, <<1, 4, 7>>, <<2, 5, 8>>,
       <<0, 4, 8>>, <<2, 4, 5>> >>

lines ==
    << <<0, 1, 2>>, <<3, 4, 5>>, <<6, 7, 8>>,
       <<0, 3, 6>>, <<1, 4, 7>>, <<2, 5, 8>>,
       <<0, 4, 8>>, <<2, 4, 6>> >>

RECURSIVE calculateWinnerFrom(_, _)
calculateWinnerFrom(b, k) ==
    IF k > Len(lines) THEN null
    ELSE LET a == lines[k][1]
             bb == lines[k][2]
             c == lines[k][3]
         IN IF b[a] # null /\ b[a] = b[bb] /\ b[a] = b[c]
            THEN b[a]
            ELSE calculateWinnerFrom(b, k + 1)

calculateWinner(b) == calculateWinnerFrom(b, 1)

\* --------------------------------------------------------------- minimax
\* The function works on the caller's array: it returns both the number it
\* returns and the contents of the array when it returns.

\* lines 82-85: does the call return before the loop
terminal(b) == calculateWinner(b) # null \/ every(b)

\* lines 82-85: the value returned for a decided or full board
terminalValue(b) ==
    LET w == calculateWinner(b)
    IN IF w = "X" THEN -10
       ELSE IF w = "O" THEN 10
       ELSE 0

\* line 92: board[i] = isMaximizing ? "O" : "X"
place(b, i, isMaximizing) == [b EXCEPT ![i] = IF isMaximizing THEN "O" ELSE "X"]

undoSkipped(b, i) == b

\* line 94: board[i] = null
undo(b, i) == [b EXCEPT ![i] = null]

improvesOrTies(isMaximizing, score, bestScore) ==
    \/ isMaximizing /\ score >= bestScore
    \/ ~isMaximizing /\ score <= bestScore

improvesFlipped(isMaximizing, score, bestScore) ==
    \/ isMaximizing /\ score < bestScore
    \/ ~isMaximizing /\ score > bestScore

\* lines 96-102: does score replace bestScore
improves(isMaximizing, score, bestScore) ==
    \/ isMaximizing /\ score > bestScore
    \/ ~isMaximizing /\ score < bestScore

resultBestScore(bestScore, bestMove) == bestScore

\* line 105: return bestMove
result(bestScore, bestMove) == bestMove

\* Positions are numbered so that the results of the calls the search makes
\* can be looked up: cell i is digit i of a base-3 number n, and the call
\* minimax(board, false) has number 2n + 1, minimax(board, true) 2n + 2.
digit(mark) == IF mark = null THEN 0 ELSE IF mark = "X" THEN 1 ELSE 2
mark(d) == IF d = 0 THEN null ELSE IF d = 1 THEN "X" ELSE "O"
boardKey(b) ==
    digit(b[0]) + 3 * (digit(b[1]) + 3 * (digit(b[2]) + 3 * (digit(b[3])
    + 3 * (digit(b[4]) + 3 * (digit(b[5]) + 3 * (digit(b[6])
    + 3 * (digit(b[7]) + 3 * digit(b[8]))))))))
\* (@@ << >> makes the array an explicitly enumerated function)
keyBoard(k) == [i \in Cells |-> mark((k \div (3 ^ i)) % 3)] @@ << >>
callKey(b, isMaximizing) == 2 * boardKey(b) + (IF isMaximizing THEN 2 ELSE 1)
CallKeys == 1 .. (2 * (3 ^ 9))

\* lines 90-104: the loop from cell i on; searched[callKey(b2, m2)] is what
\* the recursive call of line 93 returns on array contents b2
RECURSIVE minimaxLoop(_, _, _, _, _, _)
minimaxLoop(b, isMaximizing, i, bestScore, bestMove, searched) ==
    IF i >= 9 THEN [ret |-> result(bestScore, bestMove), board |-> b]
    ELSE IF b[i] = null
         THEN LET r == searched[callKey(place(b, i, isMaximizing), ~isMaximizing)]
                  score == r.ret
                  undone == undo(r.board, i)
              IN IF improves(isMaximizing, score, bestScore)
                 THEN minimaxLoop(undone, isMaximizing, i + 1, score, i, searched)
                 ELSE minimaxLoop(undone, isMaximizing, i + 1, bestScore, bestMove, searched)
         ELSE minimaxLoop(b, isMaximizing, i + 1, bestScore, bestMove, searched)

\* lines 81-106: one call, given the results of the calls it makes
minimaxCall(b, isMaximizing, searched) ==
    IF terminal(b) THEN [ret |-> terminalValue(b), board |-> b]
    ELSE minimaxLoop(b, isMaximizing, 0,
                     IF isMaximizing THEN -Infinity ELSE Infinity, -1, searched)

\* The recursion of minimax, evaluated once per position: every call the
\* search makes from a board with e empty cells is on a board with fewer, so
\* the results are tabulated by increasing number of empty cells.
RECURSIVE minimaxUpTo(_)
minimaxUpTo(e) ==
    LET searched == IF e = 0 THEN << >> ELSE minimaxUpTo(e - 1)
    IN SubSeq([k \in CallKeys |->
                  LET b == keyBoard((k - 1) \div 2)
                      n == Count(b, null)
                  IN IF n < e THEN searched[k]
                     ELSE IF n = e THEN minimaxCall(b, k % 2 = 0, searched)
                     ELSE [ret |-> -1, board |-> b]],
              1, 2 * (3 ^ 9))

minimaxSearched == minimaxUpTo(9)

\* minimax(board, isMaximizing): the number returned and the array on return
minimax(b, isMaximizing) == minimaxSearched[callKey(b, isMaximizing)]

\* ---------------------------------------------------------- game session
NoCall ==
    [op |-> "none", board |-> EmptyBoard, isMaximizing |-> FALSE, ret |-> 0,
     outcome |-> ""]
Op(name) == [NoCall EXCEPT !.op = name]

\* lines 10-20: the state after construction
Init ==
    /\ board = EmptyBoard
    /\ xIsNext = TRUE
    /\ scores = [X |-> 0, O |-> 0]
    /\ winner = null
    /\ gameStarted = FALSE
    /\ gameMode = null
    /\ timers = << >>
    /\ call = NoCall

\* A pending timer fires 500 ms after line 45 set it: the user gets in at
\* most MaxOpsPerDelay operations before it does.
userCanAct == \A k \in 1 .. Len(timers) : timers[k].ops < MaxOpsPerDelay
elapse(ts) == [k \in 1 .. Len(ts) |-> [ts[k] EXCEPT !.ops = @ + 1]]

\* line 45: setTimeout(() => aiMove(newBoard), 500)
setTimeout(ts, newBoard) == Append(ts, [newBoard |-> newBoard, ops |-> 0])

\* lines 108-113
updateScores(prevScores, gameWinner) ==
    [prevScores EXCEPT ![gameWinner] = prevScores[gameWinner] + 1]

canScore == scores.X + scores.O < MaxWins

outcomeDrawFirst(newBoard) ==
    IF every(newBoard) THEN "draw"
    ELSE IF calculateWinner(newBoard) # null THEN "win"
    ELSE "in progress"

outcomeNoDraw(newBoard) ==
    IF calculateWinner(newBoard) # null THEN "win" ELSE "in progress"

\* lines 30-44 and 70-77: what the game is taken to be after a placement
outcome(newBoard) ==
    IF calculateWinner(newBoard) # null THEN "win"
    ELSE IF every(newBoard) THEN "draw"
    ELSE "in progress"

rejectsOccupiedOnly(index) == board[index] # null

\* line 23: if (board[index] || winner) return
rejects(index) == board[index] # null \/ winner # null

\* lines 22-47; the cell buttons exist only while gameStarted (line 147)
handleClick(index) ==
    /\ gameStarted
    /\ userCanAct
    /\ IF rejects(index)
       THEN /\ call' = Op("handleClick: return")
            /\ timers' = elapse(timers)
            /\ UNCHANGED <<board, xIsNext, scores, winner, gameStarted, gameMode>>
       ELSE LET newBoard == [board EXCEPT ![index] = IF xIsNext THEN "X" ELSE "O"]
                gameWinner == calculateWinner(newBoard)
            IN /\ call' = Op("handleClick")
               /\ UNCHANGED <<gameStarted, gameMode>>
               /\ IF outcome(newBoard) = "win"
                  THEN /\ canScore
                       /\ board' = newBoard
                       /\ xIsNext' = ~xIsNext
                       /\ winner' = gameWinner
                       /\ scores' = updateScores(scores, gameWinner)
                       /\ timers' = elapse(timers)
                  ELSE IF outcome(newBoard) = "draw"
                  THEN /\ board' = EmptyBoard
                       /\ winner' = null
                       /\ xIsNext' = TRUE
                       /\ timers' = elapse(timers)
                       /\ UNCHANGED scores
                  ELSE /\ board' = newBoard
                       /\ xIsNext' = ~xIsNext
                       /\ UNCHANGED <<scores, winner>>
                       /\ IF gameMode = "AI"
                          THEN /\ Len(timers) < MaxPending
                               /\ timers' = setTimeout(elapse(timers), newBoard)
                          ELSE timers' = elapse(timers)

\* lines 64-78, run by the oldest pending timer on the array it captured
aiMove ==
    /\ timers # << >>
    /\ LET r == minimax(Head(timers).newBoard, TRUE)
           bestMove == r.ret
           newBoard == [r.board EXCEPT ![bestMove] = "O"]
           gameWinner == calculateWinner(newBoard)
       IN /\ timers' = Tail(timers)
          /\ call' = Op("aiMove")
          /\ UNCHANGED <<gameStarted, gameMode>>
          /\ IF outcome(newBoard) = "win"
             THEN /\ canScore
                  /\ board' = newBoard
                  /\ xIsNext' = TRUE
                  /\ winner' = gameWinner
                  /\ scores' = updateScores(scores, gameWinner)
             ELSE IF outcome(newBoard) = "draw"
             THEN /\ board' = EmptyBoard
                  /\ winner' = null
                  /\ xIsNext' = TRUE
                  /\ UNCHANGED scores
             ELSE /\ board' = newBoard
                  /\ xIsNext' = TRUE
                  /\ UNCHANGED <<scores, winner>>

\* lines 115-119; the button exists only while a winner is shown (line 168)
startNewGame ==
    /\ gameStarted
    /\ winner # null
    /\ userCanAct
    /\ board' = EmptyBoard
    /\ winner' = null
    /\ xIsNext' = TRUE
    /\ timers' = elapse(timers)
    /\ call' = Op("startNewGame")
    /\ UNCHANGED <<scores, gameStarted, gameMode>>

\* lines 121-127; the button exists only while gameStarted (line 173)
resetGame ==
    /\ gameStarted
    /\ userCanAct
    /\ board' = EmptyBoard
    /\ winner' = null
    /\ scores' = [X |-> 0, O |-> 0]
    /\ gameStarted' = FALSE
    /\ gameMode' = null
    /\ timers' = elapse(timers)
    /\ call' = Op("resetGame")
    /\ UNCHANGED xIsNext

\* lines 133-140; the mode buttons exist only while not gameStarted (line 147)
startGame(mode) ==
    /\ ~gameStarted
    /\ userCanAct
    /\ gameMode' = mode
    /\ gameStarted' = TRUE
    /\ timers' = elapse(timers)
    /\ call' = Op("startGame")
    /\ UNCHANGED <<board, xIsNext, scores, winner>>

Next ==
    \/ \E index \in Cells : handleClick(index)
    \/ aiMove
    \/ startNewGame
    \/ resetGame
    \/ \E mode \in {"AI", "Player"} : startGame(mode)

Spec == Init /\ [][Next]_vars

\* ------------------------------------------------- sequential play, AI mode
\* The user acts only when no aiMove is pending, and plays against the AI.
NextSeq ==
    \/ startGame("AI")
    \/ timers = << >> /\ \E index \in Cells : handleClick(index)
    \/ aiMove
    \/ timers = << >> /\ startNewGame

SpecSeq == Init /\ [][NextSeq]_vars

\* ------------------------------------------------------------- self-play
\* Both sides take the cell minimax returns: X as minimax(board, false),
\* O as minimax(board, true), applied as aiMove applies it (lines 65-66).
LegalStarts ==
    {b \in AllBoards : /\ ~terminal(b)
                       /\ Count(b, "X") - Count(b, "O") \in {0, 1}}

InitSelf ==
    /\ board \in LegalStarts
    /\ xIsNext = (Count(board, "X") = Count(board, "O"))
    /\ scores = [X |-> 0, O |-> 0]
    /\ winner = null
    /\ gameStarted = TRUE
    /\ gameMode = "AI"
    /\ timers = << >>
    /\ call = [NoCall EXCEPT !.op = "selfPlay", !.board = board]

selfPlayMove ==
    /\ call.op = "selfPlay"
    /\ ~terminal(board)
    /\ LET r == minimax(board, ~xIsNext)
           bestMove == r.ret
       IN board' = [r.board EXCEPT ![bestMove] = IF xIsNext THEN "X" ELSE "O"]
    /\ xIsNext' = ~xIsNext
    /\ UNCHANGED <<scores, winner, gameStarted, gameMode, timers, call>>

NextSelf == selfPlayMove

SpecSelf == InitSelf /\ [][NextSelf]_vars

\* ------------------------------------------- the pure functions, called once
\* calculateWinner and minimax applied to any array of 9 cells: call records
\* the argument and what was returned, board is the array after the call.
InitFn ==
    /\ board \in AllBoards
    /\ xIsNext = TRUE
    /\ scores = [X |-> 0, O |-> 0]
    /\ winner = null
    /\ gameStarted = FALSE
    /\ gameMode = null
    /\ timers = << >>
    /\ call = NoCall

callMinimax(isMaximizing) ==
    /\ call.op = "none"
    /\ LET r == minimax(board, isMaximizing)
       IN /\ call' = [NoCall EXCEPT !.op = "minimax", !.board = board,
                                    !.isMaximizing = isMaximizing, !.ret = r.ret]
          /\ board' = r.board
    /\ UNCHANGED <<xIsNext, scores, winner, gameStarted, gameMode, timers>>

callCalculateWinner ==
    /\ call.op = "none"
    /\ call' = [NoCall EXCEPT !.op = "calculateWinner", !.board = board,
                              !.ret = calculateWinner(board),
                              !.outcome = outcome(board)]
    /\ UNCHANGED <<board, xIsNext, scores, winner, gameStarted, gameMode, timers>>

NextFn ==
    \/ \E isMaximizing \in BOOLEAN : callMinimax(isMaximizing)
    \/ callCalculateWinner

SpecFn == InitFn /\ [][NextFn]_vars

\* ================================================================ claims
\* The value of a position under best play by both sides, as the claims
\* speak of it: +10 when O wins, -10 when X wins, 0 for a draw, not adjusted
\* for depth; oToMove says whose turn it is.
GameValueOf(b, oToMove, valued) ==
    IF terminal(b) THEN terminalValue(b)
    ELSE LET children == {valued[callKey(place(b, i, oToMove), ~oToMove)] :
                             i \in {j \in Cells : b[j] = null}}
         IN IF oToMove
            THEN CHOOSE v \in children : \A w \in children : v >= w
            ELSE CHOOSE v \in children : \A w \in children : v <= w

RECURSIVE GameValueUpTo(_)
GameValueUpTo(e) ==
    LET valued == IF e = 0 THEN << >> ELSE GameValueUpTo(e - 1)
    IN SubSeq([k \in CallKeys |->
                  LET b == keyBoard((k - 1) \div 2)
                      n == Count(b, null)
                  IN IF n < e THEN valued[k]
                     ELSE IF n = e THEN GameValueOf(b, k % 2 = 0, valued)
                     ELSE 0],
              1, 2 * (3 ^ 9))

GameValues == GameValueUpTo(9)
GameValue(b, oToMove) == GameValues[callKey(b, oToMove)]

Empty(b) == {i \in Cells : b[i] = null}
Side(isMaximizing) == IF isMaximizing THEN "O" ELSE "X"
MinimaxReturned == call.op = "minimax"

\* C1: in AI mode with sequential play the computer never loses: no
\* reachable state has winner = "X".
C1_ComputerNeverLoses == winner # "X"

\* C2: self-play from the empty board with X to move ends with all 9 cells
\* occupied and no winner.
C2_SelfPlayEndsInDraw ==
    (call.op = "selfPlay" /\ call.board = EmptyBoard /\ terminal(board))
        => (every(board) /\ calculateWinner(board) = null)

\* C3: on a board with no winning line and an empty cell, minimax returns
\* the index of an empty cell, for either value of isMaximizing.
C3_ReturnsEmptyCell ==
    (MinimaxReturned /\ calculateWinner(call.board) = null /\ ~every(call.board))
        => (call.ret \in Cells /\ call.board[call.ret] = null)

C3_Witness ==
    /\ MinimaxReturned
    /\ calculateWinner(call.board) = null
    /\ Cardinality(Empty(call.board)) = 3
    /\ call.ret \in Empty(call.board)
    /\ \E i \in Empty(call.board) : i < call.ret

\* C4: after minimax returns, every cell of the array holds what it held
\* before the call.
C4_BoardUnchanged ==
    MinimaxReturned => \A i \in Cells : board[i] = call.board[i]

C4_Witness ==
    /\ MinimaxReturned
    /\ call.board = EmptyBoard
    /\ board = EmptyBoard

\* C5: when the board has no winner and the side to move can complete a
\* line, minimax returns a cell that completes a line for that side; for
\* X on 0,1 and O on 3,4 with X to move it returns 2.
C5_Board == [i \in Cells |-> IF i \in {0, 1} THEN "X" ELSE IF i \in {3, 4} THEN "O" ELSE null]

Completes(b, i, isMaximizing) ==
    b[i] = null /\ calculateWinner(place(b, i, isMaximizing)) = Side(isMaximizing)

C5_TakesImmediateWin ==
    /\ (/\ MinimaxReturned
        /\ calculateWinner(call.board) = null
        /\ \E i \in Cells : Completes(call.board, i, call.isMaximizing))
           => (call.ret \in Cells /\ Completes(call.board, call.ret, call.isMaximizing))
    /\ (MinimaxReturned /\ call.board = C5_Board /\ ~call.isMaximizing)
           => call.ret = 2

C5_Witness ==
    /\ MinimaxReturned
    /\ call.board = C5_Board
    /\ ~call.isMaximizing
    /\ call.ret = 2

\* C6: for X on 0 and 8, O on 4, O to move, minimax returns an edge cell
\* (1, 3, 5 or 7), from which O does not lose against best play by X, and
\* not a corner.
C6_Board == [i \in Cells |-> IF i \in {0, 8} THEN "X" ELSE IF i = 4 THEN "O" ELSE null]

C6_Blocks ==
    (MinimaxReturned /\ call.board = C6_Board /\ call.isMaximizing)
        => /\ call.ret \in {1, 3, 5, 7}
           /\ GameValue(place(C6_Board, call.ret, TRUE), FALSE) >= 0

C6_Witness ==
    /\ MinimaxReturned
    /\ call.board = C6_Board
    /\ call.isMaximizing
    /\ call.ret \in {1, 3, 5, 7}
    /\ \A i \in {2, 6} : GameValue(place(C6_Board, i, TRUE), FALSE) < 0

\* C7: on a board with no winner and an empty cell, minimax returns the
\* lowest-index empty cell whose resulting position has the best value for
\* the side to move (greatest when O moves, least when X moves).
BestCells(b, isMaximizing) ==
    {i \in Empty(b) :
        \A j \in Empty(b) :
            IF isMaximizing
            THEN GameValue(place(b, i, TRUE), FALSE) >= GameValue(place(b, j, TRUE), FALSE)
            ELSE GameValue(place(b, i, FALSE), TRUE) <= GameValue(place(b, j, FALSE), TRUE)}

C7_LowestBestCell ==
    (MinimaxReturned /\ ~terminal(call.board))
        => /\ call.ret \in BestCells(call.board, call.isMaximizing)
           /\ \A i \in BestCells(call.board, call.isMaximizing) : call.ret <= i

\* C8: calculateWinner returns the mark of the first of the 8 lines, in the
\* fixed order, that one mark fully occupies, and null when there is none;
\* a draw is recognised exactly when no line matches and every cell is
\* occupied, otherwise the game is in progress; the board is not modified.
C8_Lines ==
    << {0, 1, 2}, {3, 4, 5}, {6, 7, 8}, {0, 3, 6}, {1, 4, 7}, {2, 5, 8},
       {0, 4, 8}, {2, 4, 6} >>

C8_Matched(b) ==
    {k \in 1 .. 8 : \E m \in Player : \A i \in C8_Lines[k] : b[i] = m}

C8_Evaluation ==
    call.op = "calculateWinner" =>
        LET b == call.board
            matched == C8_Matched(b)
            occupied == \A i \in Cells : b[i] \in Player
        IN /\ matched = {} => call.ret = null
           /\ matched # {} =>
                  \E k \in matched :
                      /\ \A j \in matched : k <= j
                      /\ \A i \in C8_Lines[k] : call.ret = b[i]
           /\ (call.outcome = "win") <=> (matched # {})
           /\ (call.outcome = "draw") <=> (matched = {} /\ occupied)
           /\ (call.outcome = "in progress") <=> (matched = {} /\ ~occupied)
           /\ board = b

C8_Witness ==
    /\ call.op = "calculateWinner"
    /\ \A i \in {3, 4, 5} : call.board[i] = "X"
    /\ \A i \in {2, 4, 6} : call.board[i] = "X"
    /\ \A i \in {0, 1, 7, 8} : call.board[i] = "O"
    /\ call.ret = "X"
    /\ call.outcome = "win"

\* C9: in every reachable state the number of X cells minus the number of
\* O cells on the board is 0 or 1.
C9_MarksAlternate == Count(board, "X") - Count(board, "O") \in {0, 1}

\* C10: once winner is non-null the board does not change until
\* startNewGame or resetGame is invoked.
C10_WinIsTerminal ==
    [][(winner # null /\ board' # board)
           => call'.op \in {"startNewGame", "resetGame"}]_vars

\* C11: in every reachable state, winner = m (non-null) implies
\* calculateWinner(board) = m, and a board with a completed line implies
\* winner is that line's mark.
C11_OutcomeMatchesBoard ==
    /\ winner # null => calculateWinner(board) = winner
    /\ calculateWinner(board) # null => winner = calculateWinner(board)

\* C12: in every step other than startNewGame, resetGame or the automatic
\* draw reset, each cell occupied before the step holds the same mark after
\* it, and the board always has exactly 9 cells.
DrawReset == call'.op \in {"handleClick", "aiMove"} /\ board' = EmptyBoard

C12_NoCellClearedOrOverwritten ==
    [][/\ DOMAIN board' = Cells
       /\ (call'.op \notin {"startNewGame", "resetGame"} /\ ~DrawReset)
              => \A i \in Cells : board[i] # null => board'[i] = board[i]]_vars

\* C13: handleClick(index) on an occupied cell, or while winner is non-null,
\* leaves board, xIsNext, winner and scores unchanged and schedules no AI
\* move.
SamePending(ts1, ts2) ==
    /\ Len(ts1) = Len(ts2)
    /\ \A k \in 1 .. Len(ts1) : ts1[k].newBoard = ts2[k].newBoard

C13_InvalidPlacementRejected ==
    [][\A index \in Cells :
           (/\ call'.op \in {"handleClick", "handleClick: return"}
            /\ (board[index] # null \/ winner # null)
            /\ handleClick(index))
               => /\ UNCHANGED <<board, xIsNext, winner, scores>>
                  /\ SamePending(timers, timers')]_vars

C13_Witness ==
    /\ call.op = "handleClick: return"
    /\ winner # null
    /\ \E i \in Cells : board[i] = null

\* C14: after startNewGame or resetGame all 9 cells are empty, and they
\* remain empty until the next handleClick places a mark, even when an AI
\* move scheduled before the reset fires afterwards.
C14_NewGameStaysEmpty ==
    [][/\ call'.op \in {"startNewGame", "resetGame"} => board' = EmptyBoard
       /\ (/\ call.op \in {"startNewGame", "resetGame", "startGame"}
           /\ board = EmptyBoard
           /\ board' # EmptyBoard) => call'.op = "handleClick"]_vars

\* C15: between two consecutive board resets scores.X + scores.O increases
\* by at most 1 (a tally rises only while no winner is recorded yet), the
\* increment goes to the side whose line is completed on the board, and
\* nothing else changes scores except resetGame, which sets both to 0.
C15_WinsCountedOnce ==
    [][scores' # scores =>
           \/ call'.op = "resetGame" /\ scores' = [X |-> 0, O |-> 0]
           \/ /\ winner = null
              /\ \E m \in Player :
                     /\ scores' = [scores EXCEPT ![m] = @ + 1]
                     /\ calculateWinner(board') = m]_vars

\* C16: every recursive call minimax(board, !isMaximizing) made at line 93
\* returns a value in {-10, 0, 10} equal to the value of the position it was
\* called on, never a cell index.
C16_RecursiveCallsReturnScores ==
    (MinimaxReturned /\ ~terminal(call.board)) =>
        \A i \in Empty(call.board) :
            LET child == place(call.board, i, call.isMaximizing)
                score == minimax(child, ~call.isMaximizing).ret
            IN /\ score \in {-10, 0, 10}
               /\ score = GameValue(child, ~call.isMaximizing)

\* C17: in AI mode, while an AI move is pending no handleClick changes the
\* board, so at most one AI move is pending at any time and a human click
\* never places an O.
C17_MutationsSerialized ==
    [][gameMode = "AI" =>
           /\ Len(timers') <= 1
           /\ (timers # << >> /\ call'.op = "handleClick") => board' = board
           /\ call'.op = "handleClick" =>
                  \A i \in Cells : board'[i] = "O" => board[i] = "O"]_vars

\* C18: when a handleClick placement fills the ninth cell without
\* completing any line, the resulting state has an all-empty board,
\* winner = null, xIsNext = true, scores unchanged, and no AI move is
\* scheduled.
C18_DrawRestarts ==
    [][\A index \in Cells :
           LET placed == [board EXCEPT ![index] = IF xIsNext THEN "X" ELSE "O"]
           IN (/\ call'.op \in {"handleClick", "handleClick: return"}
               /\ board[index] = null
               /\ winner = null
               /\ \A i \in Cells : placed[i] \in Player
               /\ C8_Matched(placed) = {}
               /\ handleClick(index))
                  => /\ board' = EmptyBoard
                     /\ winner' = null
                     /\ xIsNext' = TRUE
                     /\ scores' = scores
                     /\ SamePending(timers, timers')]_vars

C18_Witness ==
    /\ call.op = "handleClick"
    /\ board = EmptyBoard
    /\ winner = null
    /\ xIsNext

\* C19: in AI mode, a human X placement that leaves the game in progress is
\* followed, when its timer fires, by a state in which exactly one more
\* cell, empty when the timer was set, holds O and xIsNext is true.
C19_AiAnswers ==
    [][(/\ gameMode = "AI"
        /\ call.op = "handleClick"
        /\ ~xIsNext
        /\ Len(timers) = 1
        /\ Head(timers).newBoard = board
        /\ call'.op = "aiMove")
           => /\ xIsNext'
              /\ \E i \in Cells :
                     /\ board[i] = null
                     /\ board' = [board EXCEPT ![i] = "O"]]_vars

====
